---------------------------- MODULE Spec2Model ----------------------------
(***************************************************************************)
(* Winter-Magic: a hand-gesture driven scene.                              *)
(*                                                                         *)
(*   HandTracker (src/components/HandTracker.tsx) starts the camera and   *)
(*   runs the detection loop predictWebcam, which publishes the latest     *)
(*   gesture signal through onHandUpdate.                                  *)
(*   App (src/unnamed/part_003) owns the single signal slot handDataRef    *)
(*   and the photo collection (handleFileUpload).                          *)
(*   Scene (src/unnamed/part_002) reads the slot on every render frame and *)
(*   sets targetState / activePhotoId.                                     *)
(*   Particle (src/unnamed/part_001) and PhotoCard (src/unnamed/part_002)  *)
(*   move their position towards a target with Vector3.lerp.               *)
(*                                                                         *)
(* Numbers.  wristPos.x is a point of the grid {0, 1/XDen, ..., 1}, held   *)
(* as its numerator wx.  Positions are fixed-point integers and a frame's  *)
(* delta is a whole number of ticks of 1/DeltaDen second.                  *)
(***************************************************************************)
EXTENDS Integers, Sequences, FiniteSets, TLC

VARIABLES
    handData,       \* App.handDataRef.current (the single signal slot)
    photos,         \* App.photos state, in upload order
    targetState,    \* Scene.targetState: "tree" | "exploded"
    activePhotoId,  \* Scene.activePhotoId: an id or NoId (null)
    startPc,        \* position of the async function startCamera
    videoRef,       \* HandTracker.videoRef.current is non-null
    stream,         \* the MediaStream of getUserMedia: "none" | "live" | "stopped"
    srcObject,      \* video.srcObject holds the stream
    listening,      \* the 'loadeddata' listener is registered and has not fired
    requestRef,     \* an animation frame of predictWebcam is pending
    cleaned,        \* the effect's cleanup has run
    errors,         \* number of console.error reports
    published,      \* history: onHandUpdate has been called at least once
    lastPublished,  \* history: the argument of the latest onHandUpdate call
    framed,         \* history: the latest step was a render frame
    delta,          \* the frame delta, in ticks of 1/DeltaDen second
    target,         \* the target coordinate of the interpolation (one axis)
    particlePos,    \* Particle meshRef.current.position (one axis)
    cardPos,        \* PhotoCard meshRef.current.position (one axis)
    detected,       \* result.landmarks of one detect call: a sequence of hands
    classified,     \* the arguments of the onHandUpdate calls of that cycle
    cardId,         \* PhotoCard data.id
    basePosition,   \* PhotoCard basePosition prop
    cardTarget,     \* PhotoCard targetPos of the latest frame
    cardPosition    \* PhotoCard meshRef.current.position (three axes)

sceneVars   == <<targetState, activePhotoId>>
trackerVars == <<startPc, videoRef, stream, srcObject, listening, requestRef,
                 cleaned, errors>>
slotVars    == <<handData, published, lastPublished>>
lerpVars    == <<delta, target, particlePos, cardPos>>
classifyVars == <<detected, classified>>
cardVars    == <<cardId, basePosition, cardTarget, cardPosition>>
vars == <<handData, photos, targetState, activePhotoId, startPc, videoRef,
          stream, srcObject, listening, requestRef, cleaned, errors,
          published, lastPublished, framed, delta, target, particlePos,
          cardPos, detected, classified, cardId, basePosition, cardTarget,
          cardPosition>>

---------------------------------------------------------------------------
(* Bounds of the model *)

\* wristPos.x ranges over {0, 1/XDen, ..., XDen/XDen}
XDen == 2

\* the collection holds at most MaxPhotos entries
MaxPhotos == 4

\* one upload event carries at most MaxBatch files
MaxBatch == 2

\* a second is DeltaDen ticks of frame time
DeltaDen == 20

\* a frame's delta is at most MaxDelta ticks
MaxDelta == 12

\* targets and start positions lie in {-MaxTarget, 0, MaxTarget}
MaxTarget == 8

\* positions are followed while they stay within -MaxCoord..MaxCoord
MaxCoord == 40

(* The strings generateId can return are base-36 strings of at most 9     *)
(* characters; two of them stand for all.                                 *)
Ids == {"7k2m", "q9x"}

\* activePhotoId = null
NoId == "(null)"

\* the four transition types, in the order of the array `transitions`
transitions == <<"spin", "slide", "pop", "fade">>

---------------------------------------------------------------------------
(* The gesture signal (HandData | null) *)

\* handDataRef.current = null: no hand
NoHand == [present |-> FALSE, isOpen |-> FALSE, isPinching |-> FALSE, wx |-> 0]

\* the HandData values predictWebcam can build (the fields the scene reads)
Signals == [present : {TRUE}, isOpen : BOOLEAN, isPinching : BOOLEAN, wx : 0..XDen]

(* A JavaScript number that may be NaN: a fixed-point value v, or NaN.     *)
Num(v) == [nan |-> FALSE, v |-> v]
NaN == [nan |-> TRUE, v |-> 0]

\* new THREE.Vector3(): the point (0, 0, 0)
Origin == [x |-> Num(0), y |-> Num(0), z |-> Num(0)]

Min(a, b) == IF a < b THEN a ELSE b
Max(a, b) == IF a > b THEN a ELSE b


---------------------------------------------------------------------------
(* App: the signal slot and the photo collection *)

\* variant: a null result does not overwrite the slot (the last hand is kept)
handleHandUpdate_KeepLastHand(slot, data) == IF data.present THEN data ELSE slot

\* handleHandUpdate: handDataRef.current = data (the new content of the slot)
handleHandUpdate(slot, data) == data

\* transitions[index % transitions.length], index counted from 0
TransitionOf(index) == transitions[(index % Len(transitions)) + 1]

\* the newPhotos array built by the forEach of handleFileUpload; ids[i] is
\* what generateId() returned for the i-th file
NewPhotos(ids) ==
    [i \in 1..Len(ids) |-> [id |-> ids[i], transitionType |-> TransitionOf(i - 1)]]

\* handleFileUpload with n > 0 files: setPhotos(prev => [...prev, ...newPhotos])
Upload ==
    \E n \in 1..MaxBatch :
        /\ Len(photos) + n <= MaxPhotos
        /\ \E ids \in [1..n -> Ids] :
               photos' = photos \o NewPhotos(ids)
        /\ framed' = FALSE
        /\ UNCHANGED <<sceneVars, trackerVars, slotVars, lerpVars, classifyVars, cardVars>>

---------------------------------------------------------------------------
(* Scene: the render frame (useFrame) *)

\* variant: the hand's x is not mirrored
SelectionIndex_NotMirrored(wx, count) == (wx * count) \div XDen

\* Math.floor((1 - hand.wristPos.x) * photos.length), wristPos.x = wx / XDen
SelectionIndex(wx, count) == ((XDen - wx) * count) \div XDen

\* variant: clamped to photos.length instead of photos.length - 1
SafeIndex_ClampToLength(wx, count) ==
    Max(0, Min(count, SelectionIndex(wx, count)))

\* Math.max(0, Math.min(photos.length - 1, selectionIndex))
SafeIndex(wx, count) == Max(0, Min(count - 1, SelectionIndex(wx, count)))

\* variant: a fist or a lost hand never brings the tree back
NextTargetState_Sticky(hand) ==
    IF hand.present /\ hand.isOpen THEN "exploded" ELSE targetState

\* the value the frame passes to setTargetState
NextTargetState(hand) ==
    IF hand.present
      THEN IF hand.isOpen THEN "exploded" ELSE "tree"
      ELSE "tree"

\* variant: the no-hand branch does not clear the selection
NextActivePhotoId_KeepOnNoHand(hand, ps, prev) ==
    IF hand.present
      THEN IF hand.isPinching
             THEN IF Len(ps) > 0
                    THEN ps[SafeIndex(hand.wx, Len(ps)) + 1].id
                    ELSE prev
             ELSE NoId
      ELSE prev

\* the value of activePhotoId after the frame (prev when no setter is called)
NextActivePhotoId(hand, ps, prev) ==
    IF hand.present
      THEN IF hand.isPinching
             THEN IF Len(ps) > 0
                    THEN ps[SafeIndex(hand.wx, Len(ps)) + 1].id
                    ELSE prev
             ELSE NoId
      ELSE NoId

\* Scene useFrame: reads handData.current and the current photos
Frame ==
    /\ targetState' = NextTargetState(handData)
    /\ activePhotoId' = NextActivePhotoId(handData, photos, activePhotoId)
    /\ framed' = TRUE
    /\ UNCHANGED <<photos, trackerVars, slotVars, lerpVars, classifyVars, cardVars>>

\* photos.map: isActive={activePhotoId === photo.id} of the entry at index i
isActive(i) == activePhotoId = photos[i].id

RECURSIVE Gcd(_, _)
Gcd(a, b) == IF b = 0 THEN a ELSE Gcd(b, a % b)

(* photos.map: the basePos the render gives the entry at `index` (from 0)  *)
(* of a collection of `count` entries:                                     *)
(*   angle = (index / (photos.length || 1)) * Math.PI * 2                  *)
(*   y = (index % 3) * 2 - 1,  r = 4                                       *)
(*   basePos = (cos(angle) * r, y, sin(angle) * r)                         *)
(* index < count, so the angle lies in [0, 2 pi) and the point of the      *)
(* circle is given by the angle: the fraction of a turn, in lowest terms.  *)
basePos(index, count) ==
    LET den == IF count = 0 THEN 1 ELSE count
        g   == Gcd(index, den)
    IN  [turn |-> <<index \div g, den \div g>>,
         y    |-> (index % 3) * 2 - 1,
         r    |-> 4]

---------------------------------------------------------------------------
(* HandTracker: start-up, detection loop, teardown *)

\* startCamera: await handDetectionService.initialize() resolves
InitializeOk ==
    /\ startPc = "initialize"
    /\ startPc' = "getUserMedia"
    /\ framed' = FALSE
    /\ UNCHANGED <<videoRef, stream, srcObject, listening, requestRef, cleaned,
                   errors, photos, sceneVars, slotVars, lerpVars, classifyVars, cardVars>>

\* variant: the catch block swallows the failure without reporting it
InitializeFail_Silent ==
    /\ startPc = "initialize"
    /\ startPc' = "initFailed"
    /\ framed' = FALSE
    /\ UNCHANGED <<videoRef, stream, srcObject, listening, requestRef, cleaned,
                   errors, photos, sceneVars, slotVars, lerpVars, classifyVars, cardVars>>

\* startCamera: initialize() rejects; the catch block reports and returns
InitializeFail ==
    /\ startPc = "initialize"
    /\ startPc' = "initFailed"
    /\ errors' = errors + 1
    /\ framed' = FALSE
    /\ UNCHANGED <<videoRef, stream, srcObject, listening, requestRef, cleaned,
                   photos, sceneVars, slotVars, lerpVars, classifyVars, cardVars>>

\* startCamera: getUserMedia resolves with a live stream; it is attached and
\* the listener registered only if videoRef.current is non-null
GetUserMediaOk ==
    /\ startPc = "getUserMedia"
    /\ startPc' = "done"
    /\ stream' = "live"
    /\ srcObject' = videoRef
    /\ listening' = videoRef
    /\ framed' = FALSE
    /\ UNCHANGED <<videoRef, requestRef, cleaned, errors, photos, sceneVars,
                   slotVars, lerpVars, classifyVars, cardVars>>

\* startCamera: getUserMedia rejects; the catch block reports and returns
GetUserMediaFail ==
    /\ startPc = "getUserMedia"
    /\ startPc' = "cameraFailed"
    /\ errors' = errors + 1
    /\ framed' = FALSE
    /\ UNCHANGED <<videoRef, stream, srcObject, listening, requestRef, cleaned,
                   photos, sceneVars, slotVars, lerpVars, classifyVars, cardVars>>

(* predictWebcam: returns at once when videoRef.current is null; otherwise *)
(* one detection cycle: detect, publish the HandData (or null) through     *)
(* onHandUpdate, and request the next animation frame.                     *)
predictWebcam ==
    IF ~videoRef
      THEN /\ requestRef' = FALSE
           /\ UNCHANGED slotVars
      ELSE /\ \E data \in Signals \cup {NoHand} :
                  /\ handData' = handleHandUpdate(handData, data)
                  /\ lastPublished' = data
           /\ published' = TRUE
           /\ requestRef' = TRUE

\* the video element fires 'loadeddata' for the attached live stream
LoadedData ==
    /\ listening /\ srcObject /\ stream = "live"
    /\ listening' = FALSE
    /\ predictWebcam
    /\ framed' = FALSE
    /\ UNCHANGED <<startPc, videoRef, stream, srcObject, cleaned, errors,
                   photos, sceneVars, lerpVars, classifyVars, cardVars>>

\* the browser runs the pending requestAnimationFrame(predictWebcam)
AnimationFrame ==
    /\ requestRef
    /\ predictWebcam
    /\ framed' = FALSE
    /\ UNCHANGED <<startPc, videoRef, stream, srcObject, listening, cleaned,
                   errors, photos, sceneVars, lerpVars, classifyVars, cardVars>>

(* The effect's cleanup at unmount.  React detaches videoRef at unmount;   *)
(* whether the cleanup still sees the element depends on the React version *)
(* (the cleanup of a passive effect runs after the ref is detached from    *)
(* React 17 on), so both are possible: sees.                               *)
Teardown ==
    /\ ~cleaned
    /\ \E sees \in BOOLEAN :
           stream' = IF sees /\ videoRef /\ srcObject THEN "stopped" ELSE stream
    /\ requestRef' = FALSE
    /\ videoRef' = FALSE
    /\ cleaned' = TRUE
    /\ framed' = FALSE
    /\ UNCHANGED <<startPc, srcObject, listening, errors, photos, sceneVars,
                   slotVars, lerpVars, classifyVars, cardVars>>

---------------------------------------------------------------------------
(* The system: uploads, render frames, the tracker *)

Init ==
    /\ handData = NoHand
    /\ photos = <<>>
    /\ targetState = "tree"
    /\ activePhotoId = NoId
    /\ startPc = "initialize"
    /\ videoRef = TRUE
    /\ stream = "none"
    /\ srcObject = FALSE
    /\ listening = FALSE
    /\ requestRef = FALSE
    /\ cleaned = FALSE
    /\ errors = 0
    /\ published = FALSE
    /\ lastPublished = NoHand
    /\ framed = FALSE
    /\ delta = 0
    /\ target = 0
    /\ particlePos = 0
    /\ cardPos = 0
    /\ detected = <<>>
    /\ classified = <<>>
    /\ cardId = NoId
    /\ basePosition = Origin
    /\ cardTarget = Origin
    /\ cardPosition = Origin

Next ==
    \/ Upload
    \/ Frame
    \/ InitializeOk
    \/ InitializeFail
    \/ GetUserMediaOk
    \/ GetUserMediaFail
    \/ LoadedData
    \/ AnimationFrame
    \/ Teardown

Spec == Init /\ [][Next]_vars


---------------------------------------------------------------------------
(* Particle and PhotoCard: the interpolation step of a frame *)

\* "Silky smooth" factor: smoothFactor = 4.0 * delta
ParticleRate == 4

\* PhotoCard: position.lerp(targetPos, delta * 5)
PhotoRate == 5

Abs(a) == IF a < 0 THEN -a ELSE a

\* a / b rounded to the nearest fixed-point value (b > 0)
RoundDiv(a, b) ==
    IF a >= 0 THEN (2 * a + b) \div (2 * b) ELSE -((2 * (-a) + b) \div (2 * b))

(* Vector3.lerp(v, alpha) on one axis: x += (v.x - x) * alpha, with      *)
(* alpha = rate * delta / DeltaDen.  alpha is used as given.              *)
Lerp(x, v, rate) == x + RoundDiv((v - x) * (rate * delta), DeltaDen)

\* Particle useFrame: meshRef.current.position.lerp(targetPos, smoothFactor)
ParticleFrame ==
    /\ Abs(Lerp(particlePos, target, ParticleRate)) <= MaxCoord
    /\ particlePos' = Lerp(particlePos, target, ParticleRate)
    /\ UNCHANGED <<delta, target, cardPos, photos, sceneVars, trackerVars,
                   slotVars, framed, classifyVars, cardVars>>

\* PhotoCard useFrame: meshRef.current.position.lerp(targetPos, delta * 5)
PhotoFrame ==
    /\ Abs(Lerp(cardPos, target, PhotoRate)) <= MaxCoord
    /\ cardPos' = Lerp(cardPos, target, PhotoRate)
    /\ UNCHANGED <<delta, target, particlePos, photos, sceneVars, trackerVars,
                   slotVars, framed, classifyVars, cardVars>>

Coords == {-MaxTarget, 0, MaxTarget}

\* a fixed target and a fixed frame delta; the entities start anywhere
InitLerp ==
    /\ handData = NoHand
    /\ photos = <<>>
    /\ targetState = "tree"
    /\ activePhotoId = NoId
    /\ startPc = "initialize"
    /\ videoRef = TRUE
    /\ stream = "none"
    /\ srcObject = FALSE
    /\ listening = FALSE
    /\ requestRef = FALSE
    /\ cleaned = FALSE
    /\ errors = 0
    /\ published = FALSE
    /\ lastPublished = NoHand
    /\ framed = FALSE
    /\ delta \in 0..MaxDelta
    /\ target \in Coords
    /\ particlePos \in Coords
    /\ cardPos \in Coords
    /\ detected = <<>>
    /\ classified = <<>>
    /\ cardId = NoId
    /\ basePosition = Origin
    /\ cardTarget = Origin
    /\ cardPosition = Origin

NextLerp ==
    \/ ParticleFrame
    \/ PhotoFrame

SpecLerp == InitLerp /\ [][NextLerp]_vars


---------------------------------------------------------------------------
(* HandTracker: the classification of one detection result               *)
(*                                                                         *)
(* Landmark coordinates are whole hundredths of the normalized range, so   *)
(* 0.25 is 25 and 0.05 is 5.  Math.sqrt is computed to 1/SqrtScale of a    *)
(* hundredth, rounded down; it is exact on perfect squares.                *)

\* isOpen = avgDistToWrist > 0.25
OpenThreshold == 25

\* isPinching = pinchDist < 0.05
PinchThreshold == 5

\* Math.sqrt keeps SqrtScale steps per hundredth
SqrtScale == 100

\* the landmark indices predictWebcam reads: wrist, thumb, index, middle, ring, pinky
Wrist == 0
ThumbTip == 4
IndexTip == 8
MiddleTip == 12
RingTip == 16
PinkyTip == 20

RECURSIVE ISqrt(_, _, _)
\* the integer r of lo..hi-1 with r * r <= n < (r + 1) * (r + 1)
ISqrt(n, lo, hi) ==
    IF hi - lo <= 1
      THEN lo
      ELSE LET mid == (lo + hi) \div 2
           IN  IF mid * mid <= n THEN ISqrt(n, mid, hi) ELSE ISqrt(n, lo, mid)

\* Math.sqrt(n), in steps of 1/SqrtScale
Sqrt(n) == ISqrt(n * SqrtScale * SqrtScale, 0, 46340)

\* Math.sqrt(Math.pow(p.x - q.x, 2) + Math.pow(p.y - q.y, 2))
Dist2D(p, q) == Sqrt((p.x - q.x) * (p.x - q.x) + (p.y - q.y) * (p.y - q.y))

\* the reduce over fingerTips: the sum of the four distances to the wrist
SumDistToWrist(hand) ==
    Dist2D(hand[IndexTip], hand[Wrist]) + Dist2D(hand[MiddleTip], hand[Wrist])
      + Dist2D(hand[RingTip], hand[Wrist]) + Dist2D(hand[PinkyTip], hand[Wrist])

\* variant: the threshold is met at exactly 0.25
IsOpen_AtLeast(hand) == SumDistToWrist(hand) >= 4 * OpenThreshold * SqrtScale

(* avgDistToWrist > 0.25, avgDistToWrist = sum / 4 (the division by 4 is   *)
(* exact in binary floating point, so the sum is compared with 4 * 0.25)   *)
IsOpen(hand) == SumDistToWrist(hand) > 4 * OpenThreshold * SqrtScale

\* pinchDist: the distance of thumb tip and index tip
PinchDist(hand) == Dist2D(hand[ThumbTip], hand[IndexTip])

\* pinchDist < 0.05
IsPinching(hand) == PinchDist(hand) < PinchThreshold * SqrtScale

\* a landmark
Point(x, y, z) == [x |-> x, y |-> y, z |-> z]

\* the argument of onHandUpdate(null)
NullData ==
    [present |-> FALSE, isOpen |-> FALSE, isPinching |-> FALSE,
     pinchDistance |-> 0, wristPos |-> Point(0, 0, 0),
     indexTipPos |-> Point(0, 0, 0), thumbTipPos |-> Point(0, 0, 0)]

\* the HandData predictWebcam builds from the landmarks of one hand
HandDataOf(hand) ==
    [present |-> TRUE, isOpen |-> IsOpen(hand), isPinching |-> IsPinching(hand),
     pinchDistance |-> PinchDist(hand), wristPos |-> hand[Wrist],
     indexTipPos |-> hand[IndexTip], thumbTipPos |-> hand[ThumbTip]]

\* what predictWebcam passes to onHandUpdate for result.landmarks = hands
Classified(hands) ==
    IF Len(hands) > 0 THEN HandDataOf(hands[1]) ELSE NullData

\* predictWebcam on the detection result: one onHandUpdate call
Classify ==
    /\ classified = <<>>
    /\ classified' = <<Classified(detected)>>
    /\ UNCHANGED <<detected, photos, sceneVars, trackerVars, slotVars, framed,
                   lerpVars, cardVars>>

\* the wrist of the samples
SampleWrist == Point(50, 70, 0)

\* offsets of a finger tip from the wrist: at 0.25 (three ways), beyond, within
TipOffsets == {<<0, -25>>, <<15, -20>>, <<7, -24>>, <<0, -26>>, <<10, -10>>, <<20, -30>>}

\* offsets of the thumb tip from the index tip: at 0.05 (two ways), within, beyond
ThumbOffsets == {<<0, 0>>, <<3, 4>>, <<5, 0>>, <<4, 0>>, <<4, 4>>}

\* depths of the finger tips
TipDepths == {0, -30}

Shift(p, o, z) == Point(p.x + o[1], p.y + o[2], z)

\* the hands of the samples
SampleHands ==
    { (Wrist :> SampleWrist)
        @@ (IndexTip :> Shift(SampleWrist, i, z))
        @@ (ThumbTip :> Shift(Shift(SampleWrist, i, z), t, z))
        @@ (MiddleTip :> Shift(SampleWrist, m, z))
        @@ (RingTip :> Shift(SampleWrist, r, z))
        @@ (PinkyTip :> Shift(SampleWrist, k, z)) :
        i \in TipOffsets, m \in TipOffsets,
        r \in {<<0, -25>>, <<0, -26>>, <<10, -10>>},
        k \in {<<15, -20>>, <<20, -30>>, <<10, -10>>},
        t \in ThumbOffsets, z \in TipDepths }

\* a second hand of the same frame: open and pinching
SecondHand ==
    (Wrist :> Point(20, 80, 0)) @@ (IndexTip :> Point(20, 40, 0))
      @@ (ThumbTip :> Point(21, 40, 0)) @@ (MiddleTip :> Point(20, 40, 0))
      @@ (RingTip :> Point(20, 40, 0)) @@ (PinkyTip :> Point(20, 40, 0))

\* one detection result: no hand, one hand, or two hands
InitClassify ==
    /\ handData = NoHand
    /\ photos = <<>>
    /\ targetState = "tree"
    /\ activePhotoId = NoId
    /\ startPc = "initialize"
    /\ videoRef = TRUE
    /\ stream = "none"
    /\ srcObject = FALSE
    /\ listening = FALSE
    /\ requestRef = FALSE
    /\ cleaned = FALSE
    /\ errors = 0
    /\ published = FALSE
    /\ lastPublished = NoHand
    /\ framed = FALSE
    /\ delta = 0
    /\ target = 0
    /\ particlePos = 0
    /\ cardPos = 0
    /\ detected \in {<<>>} \cup {<<h>> : h \in SampleHands}
                    \cup {<<h, SecondHand>> : h \in SampleHands}
    /\ classified = <<>>
    /\ cardId = NoId
    /\ basePosition = Origin
    /\ cardTarget = Origin
    /\ cardPosition = Origin

NextClassify == Classify

SpecClassify == InitClassify /\ [][NextClassify]_vars

---------------------------------------------------------------------------
(* PhotoCard: the frame of a card that is not active                      *)
(*                                                                         *)
(* Positions are whole hundredths, so the bob's amplitude 0.05 is 5.       *)

\* Math.sin(...) * 0.05
BobAmplitude == 5

\* Math.sin takes the values s / SinDen, s in -SinDen..SinDen
SinDen == 4

\* a card is followed while its height is within MaxDrift of its base
MaxDrift == 20

(* Strings generateId can return, Math.random().toString(36).substr(2, 9), *)
(* each with its characters as base-36 digits (0-9, a = 10, ..., z = 35).  *)
IdChars ==
    ("7k2m" :> <<7, 20, 2, 22>>) @@ ("q9x" :> <<26, 9, 33>>) @@ ("" :> <<>>)
      @@ ("40" :> <<4, 0>>) @@ ("2e1z" :> <<2, 14, 1, 35>>)
      @@ ("9e999" :> <<9, 14, 9, 9, 9>>)

GeneratedIds == DOMAIN IdChars

RECURSIVE DigitRun(_, _)
\* the number of decimal digits of chars from position `from` on
DigitRun(chars, from) ==
    IF from <= Len(chars) /\ chars[from] < 10
      THEN 1 + DigitRun(chars, from + 1)
      ELSE 0

RECURSIVE DecValue(_, _, _)
\* the decimal value of the n digits of chars from position `from` on
DecValue(chars, from, n) ==
    IF n = 0 THEN 0
    ELSE 10 * DecValue(chars, from, n - 1) + chars[from + n - 1]

(* parseFloat of a base-36 string: the longest prefix that is a decimal    *)
(* literal, digits with an optional exponent e digits ('e' is digit 14);   *)
(* NaN without a leading digit, Infinity beyond the double range.  The     *)
(* value is mantissa * 10^exponent.                                        *)
ParseFloat(chars) ==
    LET n  == DigitRun(chars, 1)
        m  == DecValue(chars, 1, n)
        ne == IF n + 1 <= Len(chars) /\ chars[n + 1] = 14
                THEN DigitRun(chars, n + 2) ELSE 0
        ex == DecValue(chars, n + 2, ne)
    IN  IF n = 0 THEN [kind |-> "nan", mantissa |-> 0, exponent |-> 0]
        ELSE IF m # 0 /\ n + ex > 309
               THEN [kind |-> "inf", mantissa |-> 0, exponent |-> 0]
               ELSE [kind |-> "finite", mantissa |-> m, exponent |-> ex]

(* Math.sin(time + seed) at some elapsed time: a finite argument gives a   *)
(* value s / SinDen of [-1, 1], NaN and Infinity give NaN.                 *)
Sin(seed, s) == IF seed.kind = "finite" THEN Num(s) ELSE NaN

\* sine * 0.05
Bob(sine) ==
    IF sine.nan THEN NaN ELSE Num(RoundDiv(sine.v * BobAmplitude, SinDen))

\* a + b of two numbers
Plus(a, b) == IF a.nan \/ b.nan THEN NaN ELSE Num(a.v + b.v)

\* targetPos of the idle branch: basePosition.clone(), y += sin(...) * 0.05
IdleTarget(base, id, s) ==
    [base EXCEPT !.y = Plus(@, Bob(Sin(ParseFloat(IdChars[id]), s)))]

\* lerp of one axis on numbers that may be NaN
LerpNum(x, v, rate) ==
    IF x.nan \/ v.nan THEN NaN ELSE Num(Lerp(x.v, v.v, rate))

\* Vector3.lerp(v, alpha): every axis
LerpVec(p, v, rate) ==
    [x |-> LerpNum(p.x, v.x, rate), y |-> LerpNum(p.y, v.y, rate),
     z |-> LerpNum(p.z, v.z, rate)]

(* PhotoCard useFrame with isActive false, position part: the target is    *)
(* the base position with the bob, and the position is moved towards it.   *)
(* (Scale and rotation are moved towards constants and read nothing here.) *)
PhotoCardIdleFrame ==
    \E s \in (-SinDen)..SinDen :
        LET targetPos == IdleTarget(basePosition, cardId, s)
            moved     == LerpVec(cardPosition, targetPos, PhotoRate)
        IN  /\ ~moved.y.nan => Abs(moved.y.v - basePosition.y.v) <= MaxDrift
            /\ cardTarget' = targetPos
            /\ cardPosition' = moved
            /\ UNCHANGED <<cardId, basePosition, photos, sceneVars, trackerVars,
                           slotVars, framed, lerpVars, classifyVars>>

Vec(x, y, z) == [x |-> Num(x), y |-> Num(y), z |-> Num(z)]

\* base positions of the circle of radius 4, at the heights -1, 1 and 3
CardBases == {Vec(400, -100, 0), Vec(-400, 100, 0), Vec(0, 300, 400)}

\* a mounted card of any id: <group position={basePosition}>
InitCard ==
    /\ handData = NoHand
    /\ photos = <<>>
    /\ targetState = "tree"
    /\ activePhotoId = NoId
    /\ startPc = "initialize"
    /\ videoRef = TRUE
    /\ stream = "none"
    /\ srcObject = FALSE
    /\ listening = FALSE
    /\ requestRef = FALSE
    /\ cleaned = FALSE
    /\ errors = 0
    /\ published = FALSE
    /\ lastPublished = NoHand
    /\ framed = FALSE
    /\ delta \in 0..MaxDelta
    /\ target = 0
    /\ particlePos = 0
    /\ cardPos = 0
    /\ detected = <<>>
    /\ classified = <<>>
    /\ cardId \in GeneratedIds
    /\ basePosition \in CardBases
    /\ cardTarget = basePosition
    /\ cardPosition = basePosition

NextCard == PhotoCardIdleFrame

SpecCard == InitCard /\ [][NextCard]_vars

---------------------------------------------------------------------------
(* Properties *)

\* the value of the latest publish, absent while nothing was published
Latest == IF published THEN lastPublished ELSE NoHand

\* the index formula of the selection, written out
ExpectedIndex(wx, count) ==
    Min(count - 1, Max(0, ((XDen - wx) * count) \div XDen))

\* the entries of the collection that are rendered as active
ActiveEntries == {i \in DOMAIN photos : isActive(i)}

\* startCamera has returned
Finished == startPc \in {"done", "initFailed", "cameraFailed"}

(* C1: a render frame that runs while the slot holds no hand leaves        *)
(* targetState = "tree" and activePhotoId = null, whatever they were.      *)
C1_NoHandIsTreeAndNone ==
    (framed /\ ~handData.present) =>
        (targetState = "tree" /\ activePhotoId = NoId)

\* a frame has run on an absent signal that a detection cycle published
C1_Witness ==
    /\ framed /\ ~handData.present /\ published /\ Len(photos) > 0
    /\ targetState = "tree" /\ activePhotoId = NoId

(* C2: the index read from the collection is within 0..count-1 for every  *)
(* wristPos.x of [0,1] and every count > 0, the selected id is the id of   *)
(* an entry, and while the collection is empty nothing is selected.        *)
C2_IndexInRangeEmptyIsNone ==
    /\ Len(photos) = 0 => activePhotoId = NoId
    /\ Len(photos) > 0 =>
           \A wx \in 0..XDen :
               SafeIndex(wx, Len(photos)) \in 0..(Len(photos) - 1)
    /\ activePhotoId # NoId =>
           \E i \in DOMAIN photos : photos[i].id = activePhotoId

\* a frame has run on a pinching hand while the collection is empty
C2_Witness ==
    /\ framed /\ handData.present /\ handData.isPinching
    /\ Len(photos) = 0 /\ activePhotoId = NoId

(* C3: after a frame on a pinching hand with count > 0 entries, the        *)
(* selected id is that of the entry at index                               *)
(* min(count-1, max(0, floor((1 - x) * count))); x = 0.5 with 4 entries    *)
(* selects the third entry, x = 0 with 3 entries the last one.             *)
C3_SelectsMirroredIndex ==
    (framed /\ handData.present /\ handData.isPinching /\ Len(photos) > 0) =>
        /\ activePhotoId = photos[ExpectedIndex(handData.wx, Len(photos)) + 1].id
        /\ (2 * handData.wx = XDen /\ Len(photos) = 4) =>
               activePhotoId = photos[3].id
        /\ (handData.wx = 0 /\ Len(photos) = 3) =>
               activePhotoId = photos[3].id

\* x = 0.5 with 4 entries whose third id is unique: the third is selected
C3_Witness ==
    /\ framed /\ handData.present /\ handData.isPinching
    /\ 2 * handData.wx = XDen /\ Len(photos) = 4
    /\ activePhotoId = photos[3].id
    /\ \A i \in {1, 2, 4} : photos[i].id # photos[3].id

(* C4: after a frame on a present signal targetState = "exploded" exactly  *)
(* when the signal's isOpen holds, so a frame whose signal's isOpen        *)
(* differs from the current formation changes the formation.               *)
C4_FormationFollowsIsOpen ==
    /\ [](framed /\ handData.present =>
             (targetState = "exploded" <=> handData.isOpen))
    /\ [][(framed' /\ handData'.present
             /\ (handData'.isOpen <=> targetState = "tree"))
           => targetState' # targetState]_vars

\* a frame on a closed, pinching hand has brought the tree back
C4_Witness ==
    /\ framed /\ handData.present /\ ~handData.isOpen /\ handData.isPinching
    /\ targetState = "tree" /\ activePhotoId # NoId

(* C5: at most one entry of the collection is active.                      *)
C5_AtMostOneActive == Cardinality(ActiveEntries) <= 1

(* C6: the slot holds exactly the argument of the latest publish (absent   *)
(* before the first), the frame's formation is the one of that value, and  *)
(* a render frame is always enabled.                                       *)
C6_FrameReadsLatestPublish ==
    /\ handData = Latest
    /\ framed => (targetState = "exploded" <=> (Latest.present /\ Latest.isOpen))
    /\ ENABLED Frame

\* a frame has acted on a null published after a hand
C6_Witness ==
    /\ framed /\ published /\ ~lastPublished.present
    /\ handData = lastPublished /\ cleaned

(* C7: once the cleanup has run and startCamera has returned, no acquired  *)
(* stream is live and no detection cycle is pending.                       *)
C7_ReleasedAfterTeardown ==
    (cleaned /\ Finished) => (stream # "live" /\ ~requestRef)

(* C8: when initialize() has failed the failure was reported once, the     *)
(* detection loop is not started, nothing was published and the scene      *)
(* stays in tree formation with no selection.                              *)
C8_InitFailureIsQuiet ==
    startPc = "initFailed" =>
        /\ errors = 1
        /\ ~published /\ ~requestRef /\ ~listening /\ stream = "none"
        /\ handData = NoHand
        /\ targetState = "tree" /\ activePhotoId = NoId

\* frames run after the failure, with photos uploaded
C8_Witness ==
    /\ startPc = "initFailed" /\ framed /\ Len(photos) > 0
    /\ targetState = "tree" /\ activePhotoId = NoId

(* C9: an interpolation step with a fixed target and a fixed delta never   *)
(* increases the distance between the position and the target.             *)
C9_DistanceNeverIncreases ==
    [][/\ Abs(target - particlePos') <= Abs(target - particlePos)
       /\ Abs(target - cardPos') <= Abs(target - cardPos)]_vars

\* the coordinate c lies between a and b, inclusive
Between(c, a, b) == (Min(a, b) <= c) /\ (c <= Max(a, b))

(* C10: the factor of a step is min(1, rate * dt): the new coordinate lies *)
(* between the old one and the target, and a step with rate * dt > 1 lands *)
(* on the target.                                                          *)
C10_StepStaysBeforeTarget ==
    [][/\ Between(particlePos', particlePos, target)
       /\ Between(cardPos', cardPos, target)
       /\ (ParticleFrame /\ ParticleRate * delta > DeltaDen) => particlePos' = target
       /\ (PhotoFrame /\ PhotoRate * delta > DeltaDen) => cardPos' = target]_vars

(* C12: the entry at position k of the collection (from 0) carries the    *)
(* style number k mod 4 of the cycle spin, slide, pop, fade, also across   *)
(* separate upload events.                                                 *)
C12_StylesCycleOverCollection ==
    \A k \in DOMAIN photos :
        photos[k].transitionType = transitions[((k - 1) % 4) + 1]

(* C13: no step changes the base position of an entry that exists.        *)
C13_BasePositionIsFixed ==
    [][\A i \in DOMAIN photos :
           basePos(i - 1, Len(photos')) = basePos(i - 1, Len(photos))]_vars

\* the square of the 2D distance of two landmarks, in hundredths squared
SqDist(p, q) == (p.x - q.x) * (p.x - q.x) + (p.y - q.y) * (p.y - q.y)

\* the non-thumb finger tips
FingerTips == {IndexTip, MiddleTip, RingTip, PinkyTip}

\* the hand with every depth set to 0
Flat(hand) == [l \in DOMAIN hand |-> Point(hand[l].x, hand[l].y, 0)]

(* C11: the published signal of the first hand has isPinching exactly when *)
(* the thumb tip and the index tip are less than 0.05 apart in (x, y), and *)
(* isOpen exactly when the mean (x, y) distance of the four finger tips to *)
(* the wrist exceeds 0.25: false when all four are within 0.25 (also at    *)
(* exactly 0.25), true when all four are beyond; the depths change nothing *)
(* and no hand gives the null signal.                                      *)
C11_ClassifiesByThresholds ==
    (classified # <<>>) =>
        LET d == classified[1] IN
        IF detected = <<>>
          THEN ~d.present
          ELSE LET h == detected[1] IN
               /\ d.present
               /\ d.isPinching <=>
                      (SqDist(h[ThumbTip], h[IndexTip]) < PinchThreshold * PinchThreshold)
               /\ d.isOpen <=>
                      (SumDistToWrist(h) > 4 * OpenThreshold * SqrtScale)
               /\ (\A f \in FingerTips :
                       SqDist(h[f], h[Wrist]) <= OpenThreshold * OpenThreshold)
                      => ~d.isOpen
               /\ (\A f \in FingerTips :
                       SqDist(h[f], h[Wrist]) > OpenThreshold * OpenThreshold)
                      => d.isOpen
               /\ d.isOpen = IsOpen(Flat(h))
               /\ d.isPinching = IsPinching(Flat(h))
               /\ d.wristPos = h[Wrist]

\* every finger tip at exactly 0.25, the thumb at exactly 0.05, tips at depth
C11_Witness ==
    /\ classified # <<>> /\ Len(detected) = 2
    /\ \A f \in FingerTips :
           SqDist(detected[1][f], detected[1][Wrist]) = OpenThreshold * OpenThreshold
    /\ SqDist(detected[1][ThumbTip], detected[1][IndexTip])
           = PinchThreshold * PinchThreshold
    /\ detected[1][IndexTip].z # 0
    /\ ~classified[1].isOpen /\ ~classified[1].isPinching

(* C14: for every id of the generator, the target of a card that is not  *)
(* active is a point of numbers with the base position's x and z and a     *)
(* height within 0.05 of the base's, and the displayed position is a point *)
(* of numbers.                                                             *)
C14_IdleTargetIsNumeric ==
    /\ ~cardTarget.x.nan /\ ~cardTarget.y.nan /\ ~cardTarget.z.nan
    /\ cardTarget.x = basePosition.x
    /\ cardTarget.z = basePosition.z
    /\ Abs(cardTarget.y.v - basePosition.y.v) <= BobAmplitude
    /\ ~cardPosition.x.nan /\ ~cardPosition.y.nan /\ ~cardPosition.z.nan

===========================================================================
